---- MODULE Spec2Model ----
(***************************************************************************)
(* Model of package/bin/qualtrics_audit_helper.py: the checkpointed,       *)
(* paginated audit-log ingestion of the qualtrics_audit add-on.            *)
(*                                                                         *)
(* Time is an integer number of ticks.  Strings the code splits, strips or *)
(* concatenates are sequences of tokens; "," " " "/" "_" are the tokens    *)
(* the code looks at, every other token stands for a run of other          *)
(* characters.                                                             *)
(***************************************************************************)
EXTENDS Integers, Sequences, FiniteSets, TLC

\* ---------------------------------------------------------------- bounds
MaxTime == 1          \* the clock stops advancing here
MaxRuns == 2          \* invocations of stream_events per behaviour
ApiPageSize == 2      \* elements the API puts on one page
MaxFaults == 1        \* failures (an exception, a non-200) injected per behaviour
MaxPages == 3         \* requests followed within one fetch

\* ------------------------------------------------------ program constants
Days90 == 3           \* timedelta(days=90); one tick is 30 days
PageSize == 1000      \* params["pageSize"]

NoCkpt == [none |-> TRUE]      \* ckpt.get(key) returning None
NoUrl == [none |-> TRUE]       \* a response without nextPage
Procs == {1, 2}       \* invocations of stream_events that may overlap

\* ------------------------------------------------------------ environment
VARIABLES
  config,     \* which configuration the add-on runs with
  apiMode     \* how the API pages: "finite" or "endless"

modeVars == <<config, apiMode>>

\* Three inputs: two activity types, an account without a stanza, one type.
StdInputs ==
  << [name |-> <<"qualtrics_audit:", "/", "/", "in1">>,
      item |-> [account |-> <<"acct">>,
                activity_types |-> <<"logins", ",", " ", "users">>]],
     [name |-> <<"qualtrics_audit:", "/", "/", "in2">>,
      item |-> [account |-> <<"gone">>,
                activity_types |-> <<"logins">>]],
     [name |-> <<"qualtrics_audit:", "/", "/", "in3">>,
      item |-> [account |-> <<"acct">>,
                activity_types |-> <<"users">>]] >>

\* Two inputs of one activity type each.
PairInputs ==
  << [name |-> <<"qualtrics_audit:", "/", "/", "in1">>,
      item |-> [account |-> <<"acct">>,
                activity_types |-> <<"logins">>]],
     [name |-> <<"qualtrics_audit:", "/", "/", "in3">>,
      item |-> [account |-> <<"acct">>,
                activity_types |-> <<"users">>]] >>

\* One input of one activity type.
OneInput ==
  << [name |-> <<"qualtrics_audit:", "/", "/", "in1">>,
      item |-> [account |-> <<"acct">>,
                activity_types |-> <<"logins">>]] >>

\* Two inputs whose names and accounts contain the separator of the
\* checkpoint key: input "a_b" of account "c", input "a" of account "b_c".
CollideInputs ==
  << [name |-> <<"qualtrics_audit:", "/", "/", "a", "_", "b">>,
      item |-> [account |-> <<"c">>,
                activity_types |-> <<"logins">>]],
     [name |-> <<"qualtrics_audit:", "/", "/", "a">>,
      item |-> [account |-> <<"b", "_", "c">>,
                activity_types |-> <<"logins">>]] >>

\* An input without the activity_types setting, one where it is the empty
\* string, and one with an empty entry between two types ("logins,, users").
EmptyInputs ==
  << [name |-> <<"qualtrics_audit:", "/", "/", "in1">>,
      item |-> [account |-> <<"acct">>]],
     [name |-> <<"qualtrics_audit:", "/", "/", "in2">>,
      item |-> [account |-> <<"acct">>,
                activity_types |-> <<>>]],
     [name |-> <<"qualtrics_audit:", "/", "/", "in3">>,
      item |-> [account |-> <<"acct">>,
                activity_types |-> <<"logins", ",", ",", " ", "users">>]] >>

\* inputs.inputs: the configured inputs, in iteration order.
ConfiguredInputs ==
  CASE config = "std" -> StdInputs
    [] config = "one" -> OneInput
    [] config = "pair" -> PairInputs
    [] config = "collide" -> CollideInputs
    [] config = "empty" -> EmptyInputs

\* The stanzas of qualtrics_audit_account.conf.
AccountStanzas ==
  [a \in {<<"acct">>, <<"c">>, <<"b", "_", "c">>} |->
     [api_key |-> "key", datacenter |-> "syd1"]]

\* A stored last_end_date that datetime.fromisoformat rejects.
Garbage == [fmt |-> "garbage", t |-> 0]

\* What a checkpoint key may hold when an invocation begins: nothing, the
\* record of a run that committed at tick -1, a record without
\* last_end_date, a record whose last_end_date does not parse.
PriorCkpt == [last_end_date |-> [fmt |-> "iso", t |-> -1],
              updated_at |-> [fmt |-> "iso", t |-> -1]]
NoFieldCkpt == [updated_at |-> [fmt |-> "iso", t |-> -1]]
GarbageCkpt == [last_end_date |-> Garbage,
                updated_at |-> [fmt |-> "iso", t |-> -1]]
StoredValues == {NoCkpt, PriorCkpt, NoFieldCkpt, GarbageCkpt}

get_account_config_default(account) ==
  IF account \in DOMAIN AccountStanzas
  THEN [ok |-> TRUE,
        api_key |-> AccountStanzas[account].api_key,
        datacenter |-> AccountStanzas[account].datacenter]
  ELSE [ok |-> TRUE, api_key |-> "", datacenter |-> "api"]

\* get_account_config: account_conf_file.get raises when the stanza does
\* not exist (ok = FALSE); otherwise the api_key and datacenter of the stanza.
get_account_config(account) ==
  IF account \in DOMAIN AccountStanzas
  THEN [ok |-> TRUE,
        api_key |-> AccountStanzas[account].api_key,
        datacenter |-> AccountStanzas[account].datacenter]
  ELSE [ok |-> FALSE, api_key |-> "", datacenter |-> ""]

\* ------------------------------------------------------------ pure helpers
Min(a, b) == IF a < b THEN a ELSE b

RECURSIVE SplitFrom(_, _, _)
\* the fields of s separated by sep, cur being the field read so far
SplitFrom(s, sep, cur) ==
  IF s = <<>> THEN <<cur>>
  ELSE IF Head(s) = sep THEN <<cur>> \o SplitFrom(Tail(s), sep, <<>>)
  ELSE SplitFrom(Tail(s), sep, Append(cur, Head(s)))

\* str.split(sep): never empty, "".split(",") is [""]
Split(s, sep) == SplitFrom(s, sep, <<>>)

RECURSIVE LStrip(_)
LStrip(s) == IF s # <<>> /\ Head(s) = " " THEN LStrip(Tail(s)) ELSE s

RECURSIVE RStrip(_)
RStrip(s) ==
  IF s # <<>> /\ s[Len(s)] = " " THEN RStrip(SubSeq(s, 1, Len(s) - 1)) ELSE s

\* str.strip()
Strip(s) == RStrip(LStrip(s))

\* input_name.split("/")[-1]
normalized_input_name(input_name) ==
  LET parts == Split(input_name, "/") IN parts[Len(parts)]

\* The module-level list of the activity types of the API; stream_events
\* does not use it.
ACTIVITY_TYPES ==
  << <<"logins">>, <<"session_creations">>, <<"session_terminations">>,
     <<"password_changes">>, <<"password_resets">>, <<"users">>,
     <<"brands">>, <<"role_membership_change">>,
     <<"role_permission_change">>, <<"user_permission_change">>,
     <<"contact_list">>, <<"contact">>, <<"directory">>,
     <<"directory_setting">>, <<"dashboard_usage">>, <<"api_access">> >>

ParseActivityTypesFallback(item) ==
  LET raw == IF "activity_types" \in DOMAIN item
             THEN item.activity_types ELSE <<>>
      parts == Split(raw, ",")
  IN IF raw = <<>> THEN ACTIVITY_TYPES
     ELSE [k \in 1..Len(parts) |-> Strip(parts[k])]

\* [t.strip() for t in input_item.get("activity_types", "").split(",")]
ParseActivityTypes(item) ==
  LET raw == IF "activity_types" \in DOMAIN item
             THEN item.activity_types ELSE <<>>
      parts == Split(raw, ",")
  IN [k \in 1..Len(parts) |-> Strip(parts[k])]

get_checkpoint_key(input_name, account) ==
  input_name \o <<"_">> \o account \o <<"_", "last_end_date">>

\* datetime.isoformat() and datetime.fromisoformat()
IsoFormat(t) == [fmt |-> "iso", t |-> t]
IsIso(s) == s \in [fmt : {"iso"}, t : Int]
FromIsoFormat(s) == s.t

\* strftime("%Y-%m-%dT%H:%M:%S.%fZ")
StrfTimeZ(t) == [fmt |-> "Z", t |-> t]

get_last_end_date_now(st, key, readOk, clock) ==
  IF /\ readOk
     /\ st[key] # NoCkpt
     /\ "last_end_date" \in DOMAIN st[key]
     /\ IsIso(st[key].last_end_date)
  THEN FromIsoFormat(st[key].last_end_date)
  ELSE clock

get_last_end_date_fallback(st, key, readOk, clock) == clock - Days90

\* get_last_end_date: the stored value when the read succeeds and the value
\* parses, else 90 days before the current time.
get_last_end_date(st, key, readOk, clock) ==
  IF /\ readOk
     /\ st[key] # NoCkpt
     /\ "last_end_date" \in DOMAIN st[key]
     /\ IsIso(st[key].last_end_date)
  THEN FromIsoFormat(st[key].last_end_date)
  ELSE clock - Days90

CheckpointDataBad(end, clock) ==
  [last_end_date |-> IsoFormat(clock), updated_at |-> IsoFormat(clock)]

\* save_checkpoint: the record handed to ckpt.update
CheckpointData(end, clock) ==
  [last_end_date |-> IsoFormat(end), updated_at |-> IsoFormat(clock)]

\* params of get_data_from_api_for_activity_type
Params(activity_type, start, end) ==
  << <<"activityType", activity_type>>,
     <<"pageSize", PageSize>>,
     <<"startDate", StrfTimeZ(start)>>,
     <<"endDate", StrfTimeZ(end)>> >>

\* url = f"{base_url}?{urlencode(params)}"
FirstUrl(dc, activity_type, start, end) ==
  [host |-> dc, query |-> Params(activity_type, start, end)]

\* session.get(url, params=params): requests appends params to the query
\* the url already has.
SentQuery(u, params) == u.query \o params

\* ------------------------------------------------------------- the API
QueryHas(q, k) == \E n \in 1..Len(q) : q[n][1] = k

\* The first value of key k in query q.
RECURSIVE QueryGet(_, _)
QueryGet(q, k) ==
  IF Head(q)[1] = k THEN Head(q)[2] ELSE QueryGet(Tail(q), k)

\* The API holds one record per activity type and tick.
ApiRecord(activity_type, t) ==
  [timestamp |-> StrfTimeZ(t),
   descriptor |-> [activity |-> activity_type, id |-> t]]

\* All records of a type with start <= time < end, oldest first.
ApiWindow(activity_type, start, end) ==
  [k \in 1..(IF end > start THEN end - start ELSE 0) |->
      ApiRecord(activity_type, start + k - 1)]

\* The body of a 200 response to a request with query q.
ApiResponse(host, q) ==
  LET ty == QueryGet(q, "activityType")
      s == QueryGet(q, "startDate").t
      e == QueryGet(q, "endDate").t
      off == IF QueryHas(q, "skipToken") THEN QueryGet(q, "skipToken") ELSE 0
      all == ApiWindow(ty, s, e)
      last == Min(off + ApiPageSize, Len(all))
  IN [elements |-> SubSeq(all, off + 1, last),
      nextPage |-> IF last < Len(all)
                   THEN [host |-> host,
                         query |-> << <<"skipToken", last>>,
                                      <<"activityType", ty>>,
                                      <<"startDate", StrfTimeZ(s)>>,
                                      <<"endDate", StrfTimeZ(e)>> >>]
                   ELSE NoUrl]

\* A 200 response of an API whose cursor chain never ends: the first page
\* of the window again, with a nextPage that leads back to it.
ApiResponseEndless(host, q) ==
  LET first == ApiResponse(host, q) IN
  [elements |-> first.elements,
   nextPage |-> [host |-> host,
                 query |-> << <<"skipToken", 0>>,
                              <<"activityType", QueryGet(q, "activityType")>>,
                              <<"startDate", QueryGet(q, "startDate")>>,
                              <<"endDate", QueryGet(q, "endDate")>> >>]]

\* smi.Event(time=..., data=..., sourcetype=..., source=...)
Event(line, activity_type, dc) ==
  [time |-> line.timestamp.t,
   data |-> line.descriptor,
   sourcetype |-> <<"qualtrics:audit:">> \o activity_type,
   source |-> dc]

ExtendBad(res, elements) == elements

\* results.extend(elements)
Extend(res, elements) == res \o elements

\* ------------------------------------------------------------------ state
VARIABLES
  now,        \* datetime.utcnow()
  store,      \* the KV store collection: checkpoint key -> record or NoCkpt
  sink,       \* every <<input index, event>> handed to event_writer so far
  runs,       \* invocations started so far
  faults,     \* failures injected so far
  pc,         \* where each invocation of stream_events stands
  ret,        \* "returned" once the invocation has returned
  ckptFailed, \* the KVStoreCheckpointer constructor raised
  idx,        \* index of the input of the for loop
  account_name, datacenter, api_key, selected_activity_types,
  checkpoint_key, start_date, end_date, total_events_written,
  actIdx,     \* index of the activity type of the inner for loop
  url, results, status, pages,
  data, lineIdx, activity_events_written,
  hist,       \* per invocation and input: what was done for it
  store0      \* the store as it was when the invocation began

envVars == <<now, store, sink, runs, faults>>
ctlVars == <<pc, ret, ckptFailed, idx>>
inputVars == <<account_name, datacenter, api_key, selected_activity_types,
               checkpoint_key, start_date, end_date>>
fetchVars == <<actIdx, url, results, status, pages>>
emitVars == <<data, lineIdx, activity_events_written>>
vars == <<config, apiMode, now, store, sink, runs, faults, pc, ret, ckptFailed, idx,
          account_name, datacenter, api_key, selected_activity_types,
          checkpoint_key, start_date, end_date, total_events_written,
          actIdx, url, results, status, pages,
          data, lineIdx, activity_events_written, hist, store0>>

NumInputs == Len(ConfiguredInputs)
InputIds == 1..NumInputs

NameOf(i) == normalized_input_name(ConfiguredInputs[i].name)
AccountOf(i) == ConfiguredInputs[i].item.account
KeyOf(i) == get_checkpoint_key(NameOf(i), AccountOf(i))
TypesOf(i) == ParseActivityTypes(ConfiguredInputs[i].item)
Keys == {KeyOf(i) : i \in InputIds}

\* What an invocation has done for one input so far.
PendingRun ==
  [phase |-> "pending",     \* pending, running, done
   raised |-> "none",       \* the step whose exception left the input's try
   readOk |-> TRUE,         \* ckpt.get did not raise
   committed |-> FALSE,     \* ckpt.update returned
   before |-> NoCkpt,       \* the stored checkpoint when the run began
   start |-> 0, end |-> 0,  \* the window of the run
   nreq |-> 0,              \* HTTP requests issued
   out |-> <<>>,            \* events written, in order
   acts |-> <<>>]           \* one entry per activity type begun

\* What a run has done for one activity type so far.
NewAct(ty) ==
  [type |-> ty,
   fail |-> "none",         \* none, non200, fetch_raise, emit_raise
   nreq |-> 0,
   reqs |-> <<>>,           \* the query of every request sent, in order
   fetched |-> FALSE,       \* the fetch returned
   written |-> <<>>]        \* events written for it, in order

\* The state before the first invocation of a behaviour: every checkpoint
\* key holds one of the values of stored, nothing was emitted.
InitWith(c, mode, stored) ==
  /\ config = c
  /\ apiMode = mode
  /\ now = 0
  /\ store \in [Keys -> stored]
  /\ sink = {}
  /\ runs = 0
  /\ faults = 0
  /\ pc = [p \in Procs |-> "idle"]
  /\ ret = [p \in Procs |-> "none"]
  /\ ckptFailed = [p \in Procs |-> FALSE]
  /\ idx = [p \in Procs |-> 1]
  /\ account_name = [p \in Procs |-> <<>>]
  /\ datacenter = [p \in Procs |-> ""]
  /\ api_key = [p \in Procs |-> ""]
  /\ selected_activity_types = [p \in Procs |-> <<>>]
  /\ checkpoint_key = [p \in Procs |-> <<>>]
  /\ start_date = [p \in Procs |-> 0]
  /\ end_date = [p \in Procs |-> 0]
  /\ total_events_written = [p \in Procs |-> 0]
  /\ actIdx = [p \in Procs |-> 1]
  /\ url = [p \in Procs |-> NoUrl]
  /\ results = [p \in Procs |-> <<>>]
  /\ status = [p \in Procs |-> 0]
  /\ pages = [p \in Procs |-> <<>>]
  /\ data = [p \in Procs |-> <<>>]
  /\ lineIdx = [p \in Procs |-> 1]
  /\ activity_events_written = [p \in Procs |-> 0]
  /\ hist = [p \in Procs |-> [i \in InputIds |-> PendingRun]]
  /\ store0 = [p \in Procs |-> store]

Init == InitWith("std", "finite", {NoCkpt})

\* ---------------------------------------------------------------- fragments
\* A failure may be injected while the budget lasts.
CanFail == faults < MaxFaults

\* The end of one pass of "for input_name, input_item in inputs.inputs.items()".
NextInput(p) ==
  /\ IF idx[p] < NumInputs
     THEN /\ idx' = [idx EXCEPT ![p] = @ + 1]
          /\ pc' = [pc EXCEPT ![p] = "resolve"]
          /\ ret' = ret
     ELSE /\ idx' = idx
          /\ pc' = [pc EXCEPT ![p] = "idle"]
          /\ ret' = [ret EXCEPT ![p] = "returned"]
  /\ ckptFailed' = ckptFailed

InputExceptReturn(p) ==
  /\ pc' = [pc EXCEPT ![p] = "idle"]
  /\ ret' = [ret EXCEPT ![p] = "returned"]
  /\ UNCHANGED <<idx, ckptFailed>>

\* "except Exception as e: log.log_exception(...)" of the per-input try
InputExcept(p) == NextInput(p)

BeginFetchResample(p, k, dc, types, s, e) ==
  /\ actIdx' = [actIdx EXCEPT ![p] = k]
  /\ url' = [url EXCEPT ![p] = FirstUrl(dc, types[k], s, now)]
  /\ results' = [results EXCEPT ![p] = <<>>]
  /\ status' = [status EXCEPT ![p] = 0]
  /\ pages' = [pages EXCEPT ![p] = <<>>]

\* The first statements of get_data_from_api_for_activity_type for the k-th
\* activity type.
BeginFetch(p, k, dc, types, s, e) ==
  /\ actIdx' = [actIdx EXCEPT ![p] = k]
  /\ url' = [url EXCEPT ![p] = FirstUrl(dc, types[k], s, e)]
  /\ results' = [results EXCEPT ![p] = <<>>]
  /\ status' = [status EXCEPT ![p] = 0]
  /\ pages' = [pages EXCEPT ![p] = <<>>]

\* The end of one pass of "for activity_type in selected_activity_types":
\* the next activity type, or the commit step after the last one.  h is the
\* history after the step taken.
NextActivity(p, h) ==
  LET i == idx[p]
      types == selected_activity_types[p]
  IN IF actIdx[p] < Len(types)
     THEN /\ BeginFetch(p, actIdx[p] + 1, datacenter[p], types,
                        start_date[p], end_date[p])
          /\ pc' = [pc EXCEPT ![p] = "fetch"]
          /\ hist' = [h EXCEPT ![p][i].acts =
                        Append(@, NewAct(types[actIdx[p] + 1]))]
     ELSE /\ UNCHANGED fetchVars
          /\ pc' = [pc EXCEPT ![p] = "commit"]
          /\ hist' = h

ActivityExceptPropagate(p, h) ==
  /\ InputExcept(p)
  /\ hist' = [h EXCEPT ![p][idx[p]].phase = "done",
                       ![p][idx[p]].raised = "activity"]
  /\ UNCHANGED fetchVars

\* "except Exception as e: logger.error(...); continue" of the per-activity try
ActivityExcept(p, h) ==
  /\ NextActivity(p, h)
  /\ UNCHANGED <<ret, ckptFailed, idx>>

\* The fetch returns res to stream_events: the emit loop starts.
FetchReturn(p, res, h) ==
  /\ data' = [data EXCEPT ![p] = res]
  /\ lineIdx' = [lineIdx EXCEPT ![p] = 1]
  /\ activity_events_written' = [activity_events_written EXCEPT ![p] = 0]
  /\ pc' = [pc EXCEPT ![p] = "emit"]
  /\ hist' = [h EXCEPT ![p][idx[p]].acts[actIdx[p]].fetched = TRUE]
  /\ UNCHANGED <<ret, ckptFailed, idx>>

FetchNon200Raise(p, h) ==
  /\ ActivityExcept(p, h)
  /\ UNCHANGED emitVars

\* "else: logger.error(...); break" then "return results"
FetchNon200(p, h) ==
  /\ status' = [status EXCEPT ![p] = 500]
  /\ UNCHANGED <<actIdx, url, results, pages>>
  /\ FetchReturn(p, results[p], h)

CkptInitExceptContinue(p) ==
  /\ pc' = [pc EXCEPT ![p] = "resolve"]
  /\ ret' = [ret EXCEPT ![p] = "none"]
  /\ ckptFailed' = [ckptFailed EXCEPT ![p] = TRUE]

\* "except Exception as e: logging.error(...); return" around the
\* KVStoreCheckpointer constructor
CkptInitExcept(p) ==
  /\ pc' = [pc EXCEPT ![p] = "idle"]
  /\ ret' = [ret EXCEPT ![p] = "returned"]
  /\ ckptFailed' = [ckptFailed EXCEPT ![p] = TRUE]

\* ------------------------------------------------------------------ actions
\* Time passes.
Tick ==
  /\ now < MaxTime
  /\ now' = now + 1
  /\ UNCHANGED <<store, sink, runs, faults, ctlVars, inputVars,
                 total_events_written, fetchVars, emitVars, hist, store0, modeVars>>

\* stream_events is invoked: the checkpointer is constructed.
Start(p) ==
  /\ pc[p] = "idle"
  /\ runs < MaxRuns
  /\ runs' = runs + 1
  /\ idx' = [idx EXCEPT ![p] = 1]
  /\ hist' = [hist EXCEPT ![p] = [i \in InputIds |-> PendingRun]]
  /\ store0' = [store0 EXCEPT ![p] = store]
  /\ \/ /\ pc' = [pc EXCEPT ![p] = "resolve"]
        /\ ret' = [ret EXCEPT ![p] = "none"]
        /\ ckptFailed' = [ckptFailed EXCEPT ![p] = FALSE]
        /\ faults' = faults
     \/ /\ CanFail
        /\ faults' = faults + 1
        /\ CkptInitExcept(p)
  /\ UNCHANGED <<now, store, sink, inputVars, total_events_written,
                 fetchVars, emitVars, modeVars>>

\* Lines 149-185 for the input at idx: log level, account, activity types,
\* checkpoint key, window, session.
Resolve(p) ==
  LET i == idx[p]
      inp == ConfiguredInputs[i]
      name == normalized_input_name(inp.name)
      acct == inp.item.account
      cfg == get_account_config(acct)
      types == ParseActivityTypes(inp.item)
      key == get_checkpoint_key(name, acct)
  IN
  /\ pc[p] = "resolve"
  /\ \/ \* conf_manager.get_log_level raises
        /\ CanFail
        /\ faults' = faults + 1
        /\ hist' = [hist EXCEPT ![p][i] =
                      [PendingRun EXCEPT !.phase = "done",
                                         !.raised = "log_level",
                                         !.before = store[KeyOf(i)]]]
        /\ InputExcept(p)
        /\ UNCHANGED <<inputVars, total_events_written, fetchVars>>
     \/ \* get_account_config raises
        /\ \/ ~cfg.ok /\ faults' = faults
           \/ cfg.ok /\ CanFail /\ faults' = faults + 1
        /\ hist' = [hist EXCEPT ![p][i] =
                      [PendingRun EXCEPT !.phase = "done",
                                         !.raised = "account",
                                         !.before = store[KeyOf(i)]]]
        /\ InputExcept(p)
        /\ UNCHANGED <<inputVars, total_events_written, fetchVars>>
     \/ \* the window is computed and the first fetch begins
        /\ cfg.ok
        /\ \E readOk \in BOOLEAN :
             LET s == get_last_end_date(store, key, readOk, now) IN
             /\ readOk \/ CanFail
             /\ faults' = IF readOk THEN faults ELSE faults + 1
             /\ account_name' = [account_name EXCEPT ![p] = acct]
             /\ api_key' = [api_key EXCEPT ![p] = cfg.api_key]
             /\ datacenter' = [datacenter EXCEPT ![p] = cfg.datacenter]
             /\ selected_activity_types' =
                  [selected_activity_types EXCEPT ![p] = types]
             /\ checkpoint_key' = [checkpoint_key EXCEPT ![p] = key]
             /\ start_date' = [start_date EXCEPT ![p] = s]
             /\ end_date' = [end_date EXCEPT ![p] = now]
             /\ total_events_written' =
                  [total_events_written EXCEPT ![p] = 0]
             /\ BeginFetch(p, 1, cfg.datacenter, types, s, now)
             /\ pc' = [pc EXCEPT ![p] = "fetch"]
             /\ hist' = [hist EXCEPT ![p][i] =
                           [PendingRun EXCEPT !.phase = "running",
                                              !.readOk = readOk,
                                              !.before = store[key],
                                              !.start = s,
                                              !.end = now,
                                              !.acts = <<NewAct(types[1])>>]]
             /\ UNCHANGED <<ret, ckptFailed, idx>>
  /\ UNCHANGED <<now, store, sink, runs, emitVars, store0, modeVars>>

LoopEndsAlways(u) == TRUE

\* "while url:" is left when url is None (no nextPage in the response).
LoopEnds(u) == u = NoUrl

\* The body of the 200 response the API of this behaviour gives.
Respond(host, q) ==
  IF apiMode = "endless" THEN ApiResponseEndless(host, q)
  ELSE ApiResponse(host, q)

\* One pass of "while url:" in get_data_from_api_for_activity_type.
FetchPage(p) ==
  LET i == idx[p]
      k == actIdx[p]
      ty == selected_activity_types[p][k]
      params == Params(ty, start_date[p], end_date[p])
      q == SentQuery(url[p], params)
      resp == Respond(url[p].host, q)
      h1 == [hist EXCEPT ![p][i].nreq = @ + 1,
                         ![p][i].acts[k].nreq = @ + 1,
                         ![p][i].acts[k].reqs = Append(@, q)]
  IN
  /\ pc[p] = "fetch"
  /\ url[p] # NoUrl
  /\ hist[p][i].acts[k].nreq < MaxPages
  /\ \/ \* status 200
        /\ faults' = faults
        /\ results' = [results EXCEPT ![p] = Extend(@, resp.elements)]
        /\ pages' = [pages EXCEPT ![p] = Append(@, resp)]
        /\ status' = [status EXCEPT ![p] = 200]
        /\ url' = [url EXCEPT ![p] = resp.nextPage]
        /\ actIdx' = actIdx
        /\ IF LoopEnds(resp.nextPage)
           THEN FetchReturn(p, Extend(results[p], resp.elements), h1)
           ELSE /\ hist' = h1
                /\ UNCHANGED <<ctlVars, emitVars>>
     \/ \* any other status
        /\ CanFail
        /\ faults' = faults + 1
        /\ FetchNon200(p, [h1 EXCEPT ![p][i].acts[k].fail = "non200"])
     \/ \* session.get or resp.json raises
        /\ CanFail
        /\ faults' = faults + 1
        /\ ActivityExcept(p, [h1 EXCEPT ![p][i].acts[k].fail = "fetch_raise"])
        /\ UNCHANGED emitVars
  /\ UNCHANGED <<now, store, sink, runs, inputVars, total_events_written,
                 store0, modeVars>>

\* One pass of "for line in data:".
EmitLine(p) ==
  LET i == idx[p]
      k == actIdx[p]
      ty == selected_activity_types[p][k]
      ev == Event(data[p][lineIdx[p]], ty, datacenter[p])
  IN
  /\ pc[p] = "emit"
  /\ lineIdx[p] <= Len(data[p])
  /\ \/ \* the event is written
        /\ faults' = faults
        /\ sink' = sink \cup {<<i, ev>>}
        /\ lineIdx' = [lineIdx EXCEPT ![p] = @ + 1]
        /\ activity_events_written' =
             [activity_events_written EXCEPT ![p] = @ + 1]
        /\ total_events_written' = [total_events_written EXCEPT ![p] = @ + 1]
        /\ hist' = [hist EXCEPT ![p][i].out = Append(@, ev),
                                ![p][i].acts[k].written = Append(@, ev)]
        /\ UNCHANGED <<data, ctlVars, fetchVars>>
     \/ \* building the event or write_event raises
        /\ CanFail
        /\ faults' = faults + 1
        /\ ActivityExcept(p, [hist EXCEPT ![p][i].acts[k].fail = "emit_raise"])
        /\ UNCHANGED <<sink, emitVars, total_events_written>>
  /\ UNCHANGED <<now, store, runs, inputVars, store0, modeVars>>

\* The emit loop is over: logger.info("Written ..."), next activity type.
EndActivity(p) ==
  /\ pc[p] = "emit"
  /\ lineIdx[p] > Len(data[p])
  /\ NextActivity(p, hist)
  /\ UNCHANGED <<envVars, ret, ckptFailed, idx, inputVars,
                 total_events_written, emitVars, store0, modeVars>>

SaveCheckpointExceptWritten(st, key, end, clock) ==
  [st EXCEPT ![key] = CheckpointData(end, clock)]

\* The store when ckpt.update raises inside save_checkpoint: nothing was
\* written, and the per-input handler writes nothing.
SaveCheckpointExcept(st, key, end, clock) == st

CommitDateStart(p) == start_date[p]

\* The date stream_events hands to save_checkpoint: this run's end date.
CommitDate(p) == end_date[p]

\* save_checkpoint(ckpt, checkpoint_key, end_date) and the end of the try.
Commit(p) ==
  LET i == idx[p] IN
  /\ pc[p] = "commit"
  /\ \/ \* ckpt.update returns
        /\ faults' = faults
        /\ store' = [store EXCEPT ![checkpoint_key[p]] =
                       CheckpointData(CommitDate(p), now)]
        /\ hist' = [hist EXCEPT ![p][i].phase = "done",
                                ![p][i].committed = TRUE]
        /\ NextInput(p)
     \/ \* ckpt.update raises
        /\ CanFail
        /\ faults' = faults + 1
        /\ store' = SaveCheckpointExcept(store, checkpoint_key[p],
                                         CommitDate(p), now)
        /\ hist' = [hist EXCEPT ![p][i].phase = "done",
                                ![p][i].raised = "commit"]
        /\ InputExcept(p)
  /\ UNCHANGED <<now, sink, runs, inputVars, total_events_written,
                 fetchVars, emitVars, store0, modeVars>>

\* Invocations are serial: the host starts one when the last has returned.
Next ==
  \/ Tick
  \/ Start(1)
  \/ Resolve(1)
  \/ FetchPage(1)
  \/ EmitLine(1)
  \/ EndActivity(1)
  \/ Commit(1)

Spec == Init /\ [][Next]_vars

\* Overlapping invocations: the scheduler starts a second stream_events
\* while the first is still running; every step of either may come next.
NextConc ==
  \/ Tick
  \/ \E p \in Procs : Start(p)
  \/ \E p \in Procs : Resolve(p)
  \/ \E p \in Procs : FetchPage(p)
  \/ \E p \in Procs : EmitLine(p)
  \/ \E p \in Procs : EndActivity(p)
  \/ \E p \in Procs : Commit(p)

InitConc == InitWith("one", "finite", {NoCkpt, PriorCkpt})

SpecConc == InitConc /\ [][NextConc]_vars

\* The first of two consecutive scheduled runs.
StartFirst == runs = 0 /\ Start(1)

\* The second begins once the first has returned.
StartSecond == runs = 1 /\ pc[1] = "idle" /\ Start(2)

\* Two consecutive serial runs, kept apart as invocations 1 and 2.
NextSeq ==
  \/ Tick
  \/ StartFirst
  \/ StartSecond
  \/ \E p \in Procs : Resolve(p)
  \/ \E p \in Procs : FetchPage(p)
  \/ \E p \in Procs : EmitLine(p)
  \/ \E p \in Procs : EndActivity(p)
  \/ \E p \in Procs : Commit(p)

InitSeq == InitWith("pair", "finite", {NoCkpt, PriorCkpt})

SpecSeq == InitSeq /\ [][NextSeq]_vars

\* A step of the running invocation: the interpreter keeps executing it.
Step == Resolve(1) \/ FetchPage(1) \/ EmitLine(1) \/ EndActivity(1) \/ Commit(1)

\* The API serves finite cursor chains in some behaviours and a chain
\* that never ends in the others.
InitLive == \E m \in {"finite", "endless"} : InitWith("std", m, {NoCkpt})

\* One invocation, from its start to its return or for ever.
NextLive == Tick \/ StartFirst \/ Step

SpecLive == InitLive /\ [][NextLive]_vars /\ WF_vars(Step)

\* Serial invocations over the inputs whose names hold underscores.
InitKeys == InitWith("collide", "finite", {NoCkpt})

SpecKeys == InitKeys /\ [][Next]_vars

\* One invocation over inputs with a missing or empty activity_types.
InitTypes == InitWith("empty", "finite", {NoCkpt})

SpecTypes == InitTypes /\ [][NextLive]_vars

\* Serial invocations over a store that holds readable, damaged or no
\* checkpoints.
InitCkpt == InitWith("one", "finite", StoredValues)

SpecCkpt == InitCkpt /\ [][Next]_vars

\* ------------------------------------------------------ property helpers
RECURSIVE PagesElements(_)
\* the elements of the pages ps, in page order
PagesElements(ps) ==
  IF ps = <<>> THEN <<>> ELSE Head(ps).elements \o PagesElements(Tail(ps))

RECURSIVE SumLen(_)
\* the sum of the element counts of the pages ps
SumLen(ps) ==
  IF ps = <<>> THEN 0 ELSE Len(Head(ps).elements) + SumLen(Tail(ps))

EventsOf(recs, ty, dc) == [n \in 1..Len(recs) |-> Event(recs[n], ty, dc)]

\* The history entry of the activity type an invocation is working on.
CurAct(p) == hist[p][idx[p]].acts[actIdx[p]]

ActRaised(a) == a.fail \in {"fetch_raise", "emit_raise"}

\* ------------------------------------------------------------------ claims

\* C1: a run of an input in which the fetch or the emit of some activity
\* type raised leaves the stored checkpoint as it was before the run:
\* save_checkpoint is not executed.
C1_RaiseLeavesCheckpoint ==
  \A p \in Procs : \A i \in InputIds :
    LET h == hist[p][i] IN
    (h.phase = "done" /\ \E k \in 1..Len(h.acts) : ActRaised(h.acts[k]))
      => (~h.committed /\ store[KeyOf(i)] = h.before)

\* C2: at-least-once delivery: when a run has advanced the checkpoint of an
\* input over its window [start, end), every record the API holds in that
\* window for each configured activity type has been handed to the sink.
C2_AtLeastOnce ==
  \A p \in Procs : \A i \in InputIds :
    LET h == hist[p][i] IN
    h.committed =>
      \A k \in 1..Len(TypesOf(i)) : \A t \in h.start..(h.end - 1) :
        <<i, Event(ApiRecord(TypesOf(i)[k], t), TypesOf(i)[k],
                   get_account_config(AccountOf(i)).datacenter)>> \in sink

\* C3: a run that commits writes as last_end_date the end captured at window
\* computation, whatever the clock shows when save_checkpoint is called.
C3_CommitWritesCapturedEnd ==
  \A p \in Procs : \A i \in InputIds :
    LET h == hist[p][i] IN
    h.committed =>
      /\ store[KeyOf(i)] # NoCkpt
      /\ store[KeyOf(i)].last_end_date = IsoFormat(h.end)
      /\ h.end <= FromIsoFormat(store[KeyOf(i)].updated_at)

\* C3 witness: a commit made after the clock moved on from the captured end.
C3_Witness ==
  \E i \in InputIds :
    /\ hist[1][i].committed
    /\ store[KeyOf(i)] # NoCkpt
    /\ FromIsoFormat(store[KeyOf(i)].updated_at) > hist[1][i].end

\* C4: a non-200 status on page k ends the fetch at once: no further
\* request, no exception, and the fetch returns the elements of pages
\* 1..k-1 in order.
C4_Non200ReturnsPrefix ==
  \A p \in Procs :
    /\ \A i \in InputIds : \A k \in 1..Len(hist[p][i].acts) :
         hist[p][i].acts[k].fail = "non200" => hist[p][i].acts[k].fetched
    /\ (pc[p] = "emit" /\ status[p] # 200) =>
         LET a == CurAct(p)
             all == ApiWindow(a.type, start_date[p], end_date[p])
         IN /\ a.fail = "non200"
            /\ a.nreq = Len(pages[p]) + 1
            /\ data[p] = PagesElements(pages[p])
            /\ data[p] = SubSeq(all, 1, Min((a.nreq - 1) * ApiPageSize,
                                            Len(all)))

\* C4 witness: the second page request was refused and the first page's
\* elements are being emitted.
C4_Witness ==
  /\ pc[1] = "emit"
  /\ status[1] = 500
  /\ Len(pages[1]) = 1
  /\ Len(data[1]) = ApiPageSize
  /\ lineIdx[1] > 1

\* C5: when every page returns 200, the fetch stops exactly at the first
\* page without nextPage, and the events emitted for the activity type are
\* the elements of all pages fetched, each once and in page order, so their
\* number is the sum of the pages' element counts.
C5_PaginationTotal ==
  \A p \in Procs :
    (pc[p] = "emit" /\ status[p] = 200) =>
      LET a == CurAct(p)
          ps == pages[p]
      IN /\ Len(ps) = a.nreq
         /\ ps[Len(ps)].nextPage = NoUrl
         /\ \A n \in 1..(Len(ps) - 1) : ps[n].nextPage # NoUrl
         /\ Len(data[p]) = SumLen(ps)
         /\ data[p] = ApiWindow(a.type, start_date[p], end_date[p])
         /\ lineIdx[p] > Len(data[p]) =>
              /\ activity_events_written[p] = SumLen(ps)
              /\ a.written = EventsOf(PagesElements(ps), a.type, datacenter[p])

\* C5 witness: two pages of 2 and 1 elements were fetched and 3 events
\* emitted.
C5_Witness ==
  /\ pc[1] = "emit"
  /\ status[1] = 200
  /\ Len(pages[1]) = 2
  /\ lineIdx[1] > Len(data[1])
  /\ activity_events_written[1] = 3

\* The run of an input got past the Resolve step and has ended.
RanToEnd(h) == h.phase = "done" /\ h.raised \notin {"log_level", "account"}

\* Every event of activity type ty in the window of run h.
WindowEvents(h, ty, dc) == EventsOf(ApiWindow(ty, h.start, h.end), ty, dc)

\* C6: activity types fail independently.  In a run that got past Resolve,
\* whatever failed for an activity type (a non-200 page, an exception in the
\* fetch or in the emit), every configured activity type is fetched, every
\* activity type without a failure of its own has all the records of the
\* window emitted, and the commit step is reached: the checkpoint is
\* advanced to the run's end unless the checkpoint write itself raises.
C6_ActivityIsolation ==
  \A p \in Procs : \A i \in InputIds :
    LET h == hist[p][i] IN
    RanToEnd(h) =>
      /\ Len(h.acts) = Len(TypesOf(i))
      /\ \A j \in 1..Len(h.acts) :
           /\ h.acts[j].type = TypesOf(i)[j]
           /\ h.acts[j].nreq >= 1
           /\ h.acts[j].fail = "none" =>
                /\ h.acts[j].fetched
                /\ h.acts[j].written =
                     WindowEvents(h, TypesOf(i)[j],
                                  get_account_config(AccountOf(i)).datacenter)
      /\ h.raised \in {"none", "commit"}
      /\ h.raised = "none" =>
           /\ h.committed
           /\ store[KeyOf(i)].last_end_date = IsoFormat(h.end)

\* C6 witness: the first activity type failed, the second was fetched and
\* emitted in full, and the checkpoint was advanced.
C6_Witness ==
  LET h == hist[1][1] IN
  /\ h.phase = "done"
  /\ h.committed
  /\ Len(h.acts) = 2
  /\ h.acts[1].fail # "none"
  /\ h.acts[2].fail = "none"
  /\ Len(h.acts[2].written) = Days90

\* C7: an exception raised while emitting a record reaches the per-input
\* handler: no further activity type of the input is fetched and the commit
\* step is not reached.
C7_EmitRaiseAbortsInput ==
  \A p \in Procs : \A i \in InputIds :
    LET h == hist[p][i] IN
    \A k \in 1..Len(h.acts) :
      h.acts[k].fail = "emit_raise" =>
        /\ Len(h.acts) = k
        /\ h.phase = "done"
        /\ ~h.committed

\* Nothing of the run of an input failed.
CleanRun(h) ==
  /\ h.raised = "none"
  /\ h.readOk
  /\ \A k \in 1..Len(h.acts) : h.acts[k].fail = "none"

RECURSIVE AllWindowEvents(_, _, _, _)
\* the events of the window of run h for the activity types from k on
AllWindowEvents(h, types, dc, k) ==
  IF k > Len(types) THEN <<>>
  ELSE WindowEvents(h, types[k], dc) \o AllWindowEvents(h, types, dc, k + 1)

\* C8: per-input isolation.  When an invocation whose checkpointer was
\* constructed has returned, every configured input was run to its end,
\* whatever failed for the others, and every input without a failure of its
\* own has the outcome its own checkpoint and the clock determine: the
\* window starts at its stored checkpoint (90 days back when there is none),
\* all records of the window are emitted and the checkpoint is the end.
C8_InputIsolation ==
  \A p \in Procs :
    (ret[p] = "returned" /\ ~ckptFailed[p]) =>
      \A i \in InputIds :
        LET h == hist[p][i]
            cfg == get_account_config(AccountOf(i))
        IN /\ h.phase = "done"
           /\ (cfg.ok /\ CleanRun(h)) =>
                /\ h.before = store0[p][KeyOf(i)]
                /\ h.start = IF h.before = NoCkpt THEN h.end - Days90
                             ELSE FromIsoFormat(h.before.last_end_date)
                /\ h.out = AllWindowEvents(h, TypesOf(i), cfg.datacenter, 1)
                /\ h.committed
                /\ store[KeyOf(i)].last_end_date = IsoFormat(h.end)

\* C8 witness: the first input failed with an exception at the input level,
\* and the last input then ran clean and committed a window with records.
C8_Witness ==
  /\ ret[1] = "returned"
  /\ ~ckptFailed[1]
  /\ hist[1][1].raised # "none"
  /\ CleanRun(hist[1][NumInputs])
  /\ hist[1][NumInputs].committed
  /\ hist[1][NumInputs].out # <<>>

\* C9: when the Resolve step of an input fails (the log-level lookup or
\* get_account_config raises, as for an account without a stanza), the run of
\* that input issues no HTTP request, emits no event and leaves its
\* checkpoint as it was.
C9_ResolveFailureDoesNothing ==
  \A p \in Procs : \A i \in InputIds :
    LET h == hist[p][i] IN
    (\/ h.raised \in {"log_level", "account"}
     \/ (h.phase # "pending" /\ AccountOf(i) \notin DOMAIN AccountStanzas)) =>
      /\ h.nreq = 0
      /\ h.acts = <<>>
      /\ h.out = <<>>
      /\ ~h.committed
      /\ store[KeyOf(i)] = h.before

\* C9 witness: the Resolve step failed for an input that has a checkpoint
\* from an earlier invocation.
C9_Witness ==
  \E i \in InputIds :
    /\ hist[1][i].raised \in {"log_level", "account"}
    /\ hist[1][i].before # NoCkpt

\* C10: when the construction of the checkpoint store raises, the invocation
\* returns without doing anything for any input: nothing is resolved, no
\* request is made, no event is emitted, no checkpoint is written.
C10_CkptInitFailureSkipsAll ==
  \A p \in Procs :
    ckptFailed[p] =>
      /\ pc[p] = "idle"
      /\ ret[p] = "returned"
      /\ \A i \in InputIds : hist[p][i] = PendingRun
      /\ store = store0[p]

\* C10 witness: the constructor raised in an invocation that follows one
\* which committed a checkpoint.
C10_Witness ==
  /\ ckptFailed[1]
  /\ ret[1] = "returned"
  /\ \E k \in Keys : store[k] # NoCkpt

\* The stored record b has a last_end_date that parses.
Readable(b) ==
  /\ b # NoCkpt
  /\ "last_end_date" \in DOMAIN b
  /\ b.last_end_date.fmt = "iso"

\* C11: the window start is the stored last_end_date when the checkpoint is
\* read and parses, and the current time minus 90 days when the key is
\* absent, the record has no last_end_date, the value does not parse or the
\* read raises; get_last_end_date never ends the run: the first fetch begins.
C11_StartOrFallback ==
  \A p \in Procs : \A i \in InputIds :
    LET h == hist[p][i] IN
    (h.phase # "pending" /\ h.raised \notin {"log_level", "account"}) =>
      /\ (h.readOk /\ Readable(h.before)) =>
           h.start = h.before.last_end_date.t
      /\ (~h.readOk \/ ~Readable(h.before)) => h.start = h.end - Days90
      /\ Len(h.acts) >= 1

\* C11 witness: a run whose stored last_end_date does not parse fetched
\* from 90 days back and committed.
C11_Witness ==
  /\ hist[1][1].before = GarbageCkpt
  /\ hist[1][1].readOk
  /\ hist[1][1].start = hist[1][1].end - Days90
  /\ hist[1][1].nreq >= 1
  /\ hist[1][1].committed

\* Every value the query q gives for key k is v.
QueryAll(q, k, v) == \A n \in 1..Len(q) : q[n][1] = k => q[n][2] = v

\* C12: within one run of an input every request, of every activity type
\* and page, carries the start read at the beginning of the run and the end
\* captured once at the beginning of the run, however much time passes and
\* whatever fails in between.
C12_OneWindowPerRun ==
  \A p \in Procs : \A i \in InputIds :
    LET h == hist[p][i] IN
    \A k \in 1..Len(h.acts) : \A n \in 1..Len(h.acts[k].reqs) :
      LET q == h.acts[k].reqs[n] IN
      /\ QueryHas(q, "startDate")
      /\ QueryHas(q, "endDate")
      /\ QueryAll(q, "startDate", StrfTimeZ(h.start))
      /\ QueryAll(q, "endDate", StrfTimeZ(h.end))
      /\ h.end <= now

\* C12 witness: the first activity type failed on its second page, time
\* passed, and the second activity type was paged through.
C12_Witness ==
  LET h == hist[1][1] IN
  /\ Len(h.acts) = 2
  /\ h.acts[1].fail # "none"
  /\ Len(h.acts[1].reqs) = 2
  /\ Len(h.acts[2].reqs) = 2
  /\ now > h.end

\* C13: checkpoint monotonicity.  With serial runs and a clock that never
\* goes back, a commit never replaces a stored last_end_date by an earlier
\* one, also when the stored value could not be read and the run started
\* from the 90-day fallback.
C13_Monotonic ==
  [][\A k \in Keys :
       (Readable(store[k]) /\ store'[k] # store[k]) =>
         /\ Readable(store'[k])
         /\ store'[k].last_end_date.t >= store[k].last_end_date.t]_vars

\* C13 witness: the read of a stored checkpoint raised, the run started 90
\* days back, before the stored date, and committed a later date.
C13_Witness ==
  LET h == hist[1][1] IN
  /\ h.before = PriorCkpt
  /\ ~h.readOk
  /\ h.start < h.before.last_end_date.t
  /\ h.committed
  /\ store[KeyOf(1)].last_end_date.t > h.before.last_end_date.t

\* C14: no locking around the checkpoint.  Invocations that read the same
\* stored value begin from the same start, and the stored last_end_date
\* goes back only in a commit of an invocation whose end was captured
\* before the value it overwrites was written by another one.
C14_LastWriterWins ==
  [][/\ \A p, q \in Procs : \A i \in InputIds :
          LET h == hist'[p][i]
              g == hist'[q][i]
          IN (/\ h.phase # "pending" /\ g.phase # "pending"
              /\ h.raised \notin {"log_level", "account"}
              /\ g.raised \notin {"log_level", "account"}
              /\ h.readOk /\ g.readOk
              /\ h.before = g.before /\ Readable(h.before)) =>
               h.start = g.start
     /\ \A k \in Keys :
          (/\ Readable(store[k]) /\ Readable(store'[k])
           /\ store'[k].last_end_date.t < store[k].last_end_date.t) =>
            \E p \in Procs :
              /\ pc[p] = "commit"
              /\ checkpoint_key[p] = k
              /\ hist'[p][idx[p]].committed
              /\ store'[k].last_end_date.t = end_date[p]
              /\ hist[p][idx[p]].before # store[k]]_vars

\* C14 witness: both invocations read the same checkpoint, wrote the same
\* record each, and the one with the earlier end committed last.
C14_Witness ==
  LET h == hist[1][1]
      g == hist[2][1]
  IN /\ h.committed /\ g.committed
     /\ h.readOk /\ g.readOk
     /\ h.before = PriorCkpt /\ g.before = PriorCkpt
     /\ h.start = g.start
     /\ h.end < g.end
     /\ \E n \in 1..Len(h.out) : \E m \in 1..Len(g.out) : h.out[n] = g.out[m]
     /\ store[KeyOf(1)].last_end_date.t = h.end

\* The run computed its window: lines 175-177 were reached.
Windowed(h) == h.phase # "pending" /\ h.raised \notin {"log_level", "account"}

\* C15 as stated: the second of two consecutive runs starts at the end of
\* the first when the first committed, and at the start of the first when
\* it did not.
C15_Tiling ==
  \A i \in InputIds :
    LET h == hist[1][i]
        g == hist[2][i]
    IN (Windowed(h) /\ Windowed(g)) =>
         /\ h.committed => g.start = h.end
         /\ ~h.committed => g.start = h.start

\* C15 amended: the windows tile only through a checkpoint that is read.
\* After a commit the second run starts at the first run's end when its
\* read succeeds; after no commit it starts at the first run's start when
\* both runs read the same readable checkpoint; when the second run's read
\* raises, or nothing readable is stored, it starts 90 days before its own
\* end, wherever the first run's window was.
C15_TilingThroughCheckpoint ==
  \A i \in InputIds :
    LET h == hist[1][i]
        g == hist[2][i]
    IN (Windowed(h) /\ Windowed(g)) =>
         /\ (h.committed /\ g.readOk) => g.start = h.end
         /\ (~h.committed /\ h.readOk /\ g.readOk /\ Readable(h.before)) =>
              g.start = h.start /\ g.end >= h.end
         /\ (~g.readOk \/ (~h.committed /\ ~Readable(h.before))) =>
              g.start = g.end - Days90

\* C15 witness: the first run committed, time passed, and the second run
\* fetched the window that begins where the first ended.
C15_Witness ==
  LET h == hist[1][1]
      g == hist[2][1]
  IN /\ h.committed /\ g.committed
     /\ g.readOk
     /\ g.start = h.end
     /\ g.end > g.start
     /\ Len(g.out) >= 1

\* Every event of sequence a occurs in sequence b.
SeqWithin(a, b) == \A n \in 1..Len(a) : \E m \in 1..Len(b) : a[n] = b[m]

\* What holds of a run h of input i of the first invocation whose commit
\* raised, whatever is stored: the handler caught it, the checkpoint is as
\* the run found it, its events are in the index, the later inputs ran.
CommitRaiseCaught(i, h) ==
  /\ h.phase = "done"
  /\ ~h.committed
  /\ runs = 1 => store[KeyOf(i)] = h.before
  /\ \A n \in 1..Len(h.out) : <<i, h.out[n]>> \in sink
  /\ ret[1] = "returned" => \A j \in InputIds : j > i => hist[1][j].phase = "done"

C17_CursorVerbatim ==
  \A p \in Procs : \A i \in InputIds :
    LET h == hist[p][i] IN
    \A k \in 1..Len(h.acts) : \A n \in 2..Len(h.acts[k].reqs) :
      LET prev == ApiResponse("", h.acts[k].reqs[n - 1]) IN
      /\ prev.nextPage # NoUrl
      /\ h.acts[k].reqs[n] = prev.nextPage.query

\* The step is the last request of a fetch of invocation p.
FetchEnds(p) ==
  /\ pc[p] = "fetch"
  /\ hist'[p] # hist[p]
  /\ pc'[p] # "fetch" \/ actIdx'[p] # actIdx[p] \/ idx'[p] # idx[p]

\* The activity entry of the fetch that a step of p is in, after the step.
FetchedAct(p) == hist'[p][idx[p]].acts[actIdx[p]]

\* The response to the last request of activity entry a had no nextPage.
Exhausted(a) ==
  /\ a.fail = "none"
  /\ a.fetched
  /\ Respond("", a.reqs[Len(a.reqs)]).nextPage = NoUrl

\* While the API answers 200 with a nextPage and nothing fails, the
\* invocation is still in its first fetch.
NeverReturns ==
  (apiMode = "endless" /\ faults = 0) =>
    /\ pc[1] \in {"idle", "resolve", "fetch"}
    /\ ret[1] # "returned"
    /\ idx[1] = 1
    /\ actIdx[1] = 1
    /\ sink = {}
    /\ \A i \in InputIds :
         /\ ~hist[1][i].committed
         /\ Len(hist[1][i].acts) <= 1
         /\ i > 1 => hist[1][i].phase = "pending"
    /\ \A k \in Keys : store[k] = NoCkpt

\* Every started invocation over finite cursor chains returns.
FiniteReturns ==
  (apiMode = "finite" /\ pc[1] # "idle") ~> (pc[1] = "idle" /\ ret[1] = "returned")

\* C18 as stated: a fetch ends only by cursor exhaustion or a non-200
\* response.
C18_FetchEndsTwoWays ==
  [][\A p \in Procs :
       FetchEnds(p) => Exhausted(FetchedAct(p)) \/ FetchedAct(p).fail = "non200"]_vars

\* C18 amended: a fetch ends only by cursor exhaustion, a non-200 response
\* or an exception of the request; over finite cursor chains every started
\* invocation returns; while the API answers 200 with a nextPage and
\* nothing fails, the fetch does not return, nothing is committed and no
\* later activity type or input is begun.
C18_Termination ==
  /\ [][\A p \in Procs :
          FetchEnds(p) => \/ Exhausted(FetchedAct(p))
                          \/ FetchedAct(p).fail = "non200"
                          \/ FetchedAct(p).fail = "fetch_raise"]_vars
  /\ FiniteReturns
  /\ []NeverReturns

\* C18 witness: the API never ends the chain, and the invocation is
\* still in the first fetch of the first input after MaxPages requests.
C18_Witness ==
  /\ apiMode = "endless"
  /\ faults = 0
  /\ pc[1] = "fetch"
  /\ Len(hist[1][1].acts[1].reqs) = MaxPages
  /\ url[1] # NoUrl

\* The (input name, account name) pair of input i.
PairOf(i) == <<NameOf(i), AccountOf(i)>>

\* C19: checkpoints are isolated per (input name, account name).  Within
\* an invocation the run of an input reads the checkpoint its pair had when
\* the invocation began, and until it commits itself the checkpoint of
\* its pair is as it was then, whatever the runs of other pairs wrote.
C19_KeyIsolation ==
  \A p \in Procs : \A i, j \in InputIds :
    (PairOf(i) # PairOf(j)) =>
      /\ Windowed(hist[p][j]) => hist[p][j].before = store0[p][KeyOf(j)]
      /\ (hist[p][i].committed /\ ~hist[p][j].committed) =>
           store[KeyOf(j)] = store0[p][KeyOf(j)]

\* The activity_types setting of input i as configured ("" when missing).
RawTypes(i) ==
  IF "activity_types" \in DOMAIN ConfiguredInputs[i].item
  THEN ConfiguredInputs[i].item.activity_types ELSE <<>>

\* The comma-separated entries of a setting: one more than its commas.
CountEntries(raw) == 1 + Cardinality({n \in 1..Len(raw) : raw[n] = ","})

\* C20: a run that computed its window calls the fetch once per
\* comma-separated entry of activity_types, at least once, each call
\* sending its entry as activityType; with a missing or empty setting that
\* is one fetch with the empty string, and whatever it returns (a page, a
\* non-200, an exception) the commit follows and, unless ckpt.update itself
\* raises, stores the run's end.
C20_OneFetchPerEntry ==
  \A p \in Procs : \A i \in InputIds :
    LET h == hist[p][i]
        n == CountEntries(RawTypes(i))
    IN Windowed(h) =>
         /\ Len(h.acts) >= 1 /\ Len(h.acts) <= n
         /\ \A k \in 1..Len(h.acts) :
              /\ k < Len(h.acts) => h.acts[k].nreq >= 1
              /\ \A r \in 1..Len(h.acts[k].reqs) :
                   QueryAll(h.acts[k].reqs[r], "activityType", h.acts[k].type)
         /\ RawTypes(i) = <<>> => n = 1 /\ h.acts[1].type = <<>>
         /\ h.phase = "done" =>
              /\ Len(h.acts) = n
              /\ \A k \in 1..n : h.acts[k].nreq >= 1
              /\ h.committed \/ h.raised = "commit"
              /\ h.committed =>
                   store[KeyOf(i)].last_end_date = IsoFormat(h.end)

\* C20 witness: the input without the setting and the input with the
\* empty setting each made one fetch with the empty activity type, one of
\* them answered by a non-200, and both advanced their checkpoint.
C20_Witness ==
  LET h == hist[1][1]
      g == hist[1][2]
  IN /\ config = "empty"
     /\ h.committed /\ g.committed
     /\ Len(h.acts) = 1 /\ Len(g.acts) = 1
     /\ h.acts[1].type = <<>> /\ g.acts[1].type = <<>>
     /\ h.acts[1].fail = "non200"
     /\ g.acts[1].fail = "none" /\ g.acts[1].nreq >= 1
     /\ store[KeyOf(1)].last_end_date = IsoFormat(h.end)
     /\ store[KeyOf(2)].last_end_date = IsoFormat(g.end)

====
